---- MODULE Spec2Model ----
(***************************************************************************)
(* A model of zato.server.pickup: PickupEvent and PickupManager            *)
(* (code/zato-server/src/zato/server/pickup.py).                           *)
(*                                                                         *)
(* One PickupManager is constructed from a configuration of stanzas, its   *)
(* run() method registers inotify watches and then polls for events; each  *)
(* event is matched, optionally read and parsed, handed to greenlets and   *)
(* post-processed.  Greenlets run interleaved with the loop.               *)
(***************************************************************************)
EXTENDS Integers, Sequences, FiniteSets, Bags, TLC

(***************************************************************************)
(* Bounds of the model.                                                    *)
(***************************************************************************)
\* Total number of inotify events delivered over one run.
MaxEvents == 2
\* Largest number of events one get_events call returns.
MaxBatch == 2
\* The number of direct calls of get_parser.
MaxCalls == 4
\* The longest pattern list should_pick_up is called with directly.
MaxPatterns == 4

(***************************************************************************)
(* The environment: directories, file names, file contents, recipients.    *)
(***************************************************************************)
Dirs == {"d1", "d2"}
Names == {"a", "c"}
\* What a file holds: "good" parses, "bad" makes the parser raise,
\* "absent" is a file that is not there (moved away, removed).
Contents == {"absent", "good", "bad"}
\* A watch descriptor inotify never handed out to this manager (add_watch
\* hands out 1, 2, ... one per directory).
StaleWd == Cardinality(Dirs) + 1

None == "None"
\* PickupEvent.data before anything was assigned (the module's _singleton).
_singleton == "_singleton"

(***************************************************************************)
(* Parser names are sequences of tokens; ":" "." and " " are the           *)
(* characters split() and strip() look at.                                 *)
(***************************************************************************)
ParserJson == <<"py", ":", "json", ".", "loads">>
ParserNoAttr == <<"py", ":", "json", ".", "nope">>
ParserService == <<"zato", ":", "svc">>
ParserNoColon == <<"json", ".", "loads">>
ParserNames == {ParserJson, ParserNoAttr, ParserService, ParserNoColon}
\* Further names get_parser may be called with directly.
ParserLoad == <<"py", ":", "json", ".", "load">>
ParserPadded == <<" ">> \o ParserJson \o <<" ">>

\* The importable modules and their attributes.
ModuleAttrs(module_path) ==
    IF module_path = <<"json">> THEN {"loads", "load"} ELSE {}
Importable(module_path) == module_path = <<"json">>


(***************************************************************************)
(* String helpers of the Python runtime, over token sequences.             *)
(***************************************************************************)
RECURSIVE strip_left(_)
strip_left(s) ==
    IF s # <<>> /\ Head(s) = " " THEN strip_left(Tail(s)) ELSE s

RECURSIVE strip_right(_)
strip_right(s) ==
    IF s # <<>> /\ s[Len(s)] = " "
    THEN strip_right(SubSeq(s, 1, Len(s) - 1))
    ELSE s

\* str.strip()
strip(s) == strip_right(strip_left(s))

RECURSIVE split(_, _)
\* str.split(sep): the list of the segments between the separators.
split(s, sep) ==
    IF \A i \in 1..Len(s) : s[i] # sep
    THEN <<s>>
    ELSE LET i == CHOOSE k \in 1..Len(s) :
                      s[k] = sep /\ \A j \in 1..(k - 1) : s[j] # sep
         IN  <<SubSeq(s, 1, i - 1)>> \o split(SubSeq(s, i + 1, Len(s)), sep)

RECURSIVE join(_, _)
\* sep.join(parts)
join(parts, sep) ==
    IF parts = <<>> THEN <<>>
    ELSE IF Len(parts) = 1 THEN parts[1]
    ELSE parts[1] \o <<sep>> \o join(Tail(parts), sep)

(***************************************************************************)
(* Parser resolution: get_py_parser, get_service_parser, get_parser.       *)
(* Each returns [exc, parser]; exc = None when the call returned.          *)
(***************************************************************************)
NoParser == <<>>

\* getattr(import_module(module_path), callable_name)
get_py_parser(name) ==
    LET parts == split(name, ".")
        module_path == join(SubSeq(parts, 1, Len(parts) - 1), ".")
        callable_name == parts[Len(parts)]
    IN  IF ~Importable(module_path)
        THEN [exc |-> "ImportError", parser |-> NoParser]
        ELSE IF \A a \in ModuleAttrs(module_path) : callable_name # <<a>>
        THEN [exc |-> "AttributeError", parser |-> NoParser]
        ELSE [exc |-> None, parser |-> module_path \o <<".">> \o callable_name]

\* A service parser that resolves: the name itself stands for the callable.
get_service_parser_resolves(name) ==
    [exc |-> None, parser |-> name]

\* raise NotImplementedError('Not implemented in current version')
get_service_parser(name) ==
    [exc |-> "NotImplementedError", parser |-> NoParser]

\* get_parser remembering a failure too: the name is cached with no
\* parser, and later calls are served that from the cache.
get_parser_caches_failure(cache, parser_name) ==
    IF parser_name \in DOMAIN cache
    THEN [exc |-> None, parser |-> cache[parser_name], cache |-> cache,
          resolved |-> FALSE]
    ELSE LET segs == split(strip(parser_name), ":")
         IN  IF Len(segs) # 2
             THEN [exc |-> "ValueError", parser |-> NoParser,
                   cache |-> cache @@ (parser_name :> NoParser),
                   resolved |-> FALSE]
             ELSE LET type == segs[1]
                      name == segs[2]
                      r == IF type = <<"py">> THEN get_py_parser(name)
                                              ELSE get_service_parser(name)
                  IN  [exc |-> r.exc, parser |-> r.parser,
                       cache |-> cache @@ (parser_name :> r.parser),
                       resolved |-> TRUE]

\* get_parser without its cache: the name is resolved at every call.
get_parser_uncached(cache, parser_name) ==
    LET segs == split(strip(parser_name), ":")
    IN  IF Len(segs) # 2
        THEN [exc |-> "ValueError", parser |-> NoParser, cache |-> cache,
              resolved |-> FALSE]
        ELSE LET type == segs[1]
                 name == segs[2]
                 r == IF type = <<"py">> THEN get_py_parser(name)
                                         ELSE get_service_parser(name)
             IN  [exc |-> r.exc, parser |-> r.parser, cache |-> cache,
                  resolved |-> TRUE]

\* get_parser(parser_name) on a manager whose _parser_cache is cache:
\* [exc, parser, cache, resolved], cache being _parser_cache after the call
\* and resolved telling whether get_py_parser or get_service_parser was
\* called.
get_parser(cache, parser_name) ==
    IF parser_name \in DOMAIN cache
    THEN [exc |-> None, parser |-> cache[parser_name], cache |-> cache,
          resolved |-> FALSE]
    ELSE LET segs == split(strip(parser_name), ":")
         IN  IF Len(segs) # 2
             THEN [exc |-> "ValueError", parser |-> NoParser, cache |-> cache,
                   resolved |-> FALSE]
             ELSE LET type == segs[1]
                      name == segs[2]
                      r == IF type = <<"py">> THEN get_py_parser(name)
                                              ELSE get_service_parser(name)
                  IN  IF r.exc # None
                      THEN [exc |-> r.exc, parser |-> NoParser,
                            cache |-> cache, resolved |-> TRUE]
                      ELSE [exc |-> None, parser |-> r.parser,
                            cache |-> cache @@ (parser_name :> r.parser),
                            resolved |-> TRUE]

\* Calling a resolved parser on the bytes read: json.loads raises ValueError
\* on bytes that are no JSON document.
call_parser(parser, raw_data) ==
    IF raw_data = "good"
    THEN [exc |-> None, value |-> "parsed"]
    ELSE [exc |-> "ValueError", value |-> None]

(***************************************************************************)
(* should_pick_up: patterns are compiled regular expressions; pattern "Pa" *)
(* matches the name "a", "Pb" the name "b", and so on.                     *)
(***************************************************************************)
Patterns == {"Pa", "Pb"}
match(pattern, name) ==
    \/ pattern = "Pa" /\ name = "a"
    \/ pattern = "Pb" /\ name = "b"

\* should_pick_up returning from inside its loop at the first pattern,
\* matching or not.
should_pick_up_first_only(name, patterns) ==
    patterns # <<>> /\ match(Head(patterns), name)

RECURSIVE should_pick_up(_, _)
\* Returns True at the first pattern that matches; falls off the end of
\* the loop (returning None, which is false) when none does.
should_pick_up(name, patterns) ==
    IF patterns = <<>> THEN FALSE
    ELSE IF match(Head(patterns), name) THEN TRUE
    ELSE should_pick_up(name, Tail(patterns))

(***************************************************************************)
(* PickupEvent                                                             *)
(***************************************************************************)
NoPath == <<>>

\* PickupEvent.__init__
PickupEvent ==
    [base_dir |-> None, file_name |-> None, full_path |-> NoPath,
     stanza |-> None, ts_utc |-> None, raw_data |-> "", data |-> _singleton,
     has_raw_data |-> FALSE, has_data |-> FALSE, parse_error |-> None]

\* os.path.join(base_dir, name)
path_join(base_dir, name) == <<base_dir, name>>

(***************************************************************************)
(* Configuration: stanza -> section.  A configuration holds stanza "s1",   *)
(* which picks up from "d1" and ranges over the flags, alone or together   *)
(* with "s2", a plain notification stanza on the same directory or on "d2".*)
(***************************************************************************)
Stanzas == {"s1", "s2"}
Recipients == <<"r1", "r2">>
Archive == "/archive"

Section(pickup_from, patterns, read, parse, parse_with, hot, delete, move) ==
    [pickup_from |-> pickup_from, patterns |-> patterns,
     read_on_pickup |-> read, parse_on_pickup |-> parse,
     parse_with |-> parse_with, is_service_hot_deploy |-> hot,
     delete_after_pick_up |-> delete, move_processed_to |-> move,
     recipients |-> Recipients]

\* read_on_pickup, parse_on_pickup, parse_with
ReadModes ==
    {<<FALSE, FALSE, ParserJson>>, <<TRUE, FALSE, ParserJson>>,
     <<TRUE, TRUE, ParserJson>>}

\* Stanza "s1": no pattern at all; every read mode with every clean-up
\* setting; the parser names that do not resolve; and hot deployment with
\* the read, parse and delete flags all set or all clear.
Sections1 ==
    {Section("d1", <<>>, TRUE, TRUE, ParserJson, FALSE, TRUE, Archive)}
    \cup {Section("d1", <<"Pb", "Pa">>, m[1], m[2], m[3], FALSE, del, mv) :
             m \in ReadModes, del \in BOOLEAN, mv \in {None, Archive}}
    \cup {Section("d1", <<"Pb", "Pa">>, TRUE, TRUE, p, FALSE, dm[1], dm[2]) :
             p \in ParserNames \ {ParserJson},
             dm \in {<<TRUE, Archive>>}}
    \cup {Section("d1", <<"Pb", "Pa">>, m[1], m[2], ParserJson, TRUE, m[3],
                  Archive) :
             m \in {<<FALSE, FALSE, FALSE>>, <<TRUE, TRUE, TRUE>>}}

\* The sections of "s1" that come together with stanza "s2".
SharedSections1 ==
    {Section("d1", <<"Pb", "Pa">>, TRUE, TRUE, ParserJson, FALSE, TRUE,
             Archive)}

Sections2 ==
    {Section(d, <<"Pa">>, FALSE, FALSE, ParserJson, FALSE, FALSE, None) :
        d \in Dirs}

Configs ==
    {[s \in {"s1"} |-> c1] : c1 \in Sections1}
    \cup {[s \in Stanzas |-> IF s = "s1" THEN c1 ELSE c2] :
             c1 \in SharedSections1, c2 \in Sections2}

\* An update that keeps what bunch holds and only adds the keys it lacks.
update_missing(bunch, other) ==
    [k \in DOMAIN bunch \cup DOMAIN other |->
        IF k \in DOMAIN bunch THEN bunch[k] ELSE other[k]]

\* Bunch.update(other): the keys of other replace or extend those of bunch.
update(bunch, other) ==
    [k \in DOMAIN bunch \cup DOMAIN other |->
        IF k \in DOMAIN other THEN other[k] ELSE bunch[k]]

EmptyBunch == [k \in {} |-> None]

RECURSIVE build_callback_config(_, _, _)
\* The loop of PickupManager.__init__ over config.items(), the stanzas
\* coming in the order `order`, starting from callback_config = cc.
build_callback_config(cfg, order, cc) ==
    IF order = <<>> THEN cc
    ELSE LET stanza == Head(order)
             section_config == cfg[stanza]
             dir == section_config.pickup_from
             \* callback_config.setdefault(pickup_from, Bunch())
             old == IF dir \in DOMAIN cc THEN cc[dir] ELSE EmptyBunch
             cb_config == update(update(old, section_config),
                                 [stanza |-> stanza])
         IN  build_callback_config(cfg, Tail(order),
                 [d \in DOMAIN cc \cup {dir} |->
                     IF d = dir THEN cb_config ELSE cc[d]])

\* The orders in which a dict may hand out its items.
Orders(S) == {o \in [1..Cardinality(S) -> S] :
                 \A i, j \in 1..Cardinality(S) : i # j => o[i] # o[j]}

(***************************************************************************)
(* State                                                                   *)
(***************************************************************************)
VARIABLES
    config,            \* PickupManager.config: stanza -> section
    callback_config,   \* PickupManager.callback_config: directory -> config
    infx_ok,           \* whether gevent_inotifyx could be imported
    exists,            \* the directories os.path.exists finds
    keep_running,      \* PickupManager.keep_running
    wd_to_path,        \* PickupManager.wd_to_path
    parser_cache,      \* PickupManager._parser_cache
    pc,                \* where run() is
    events,            \* the events of the current batch not yet handled
    pe,                \* the PickupEvent of the event being handled
    cur,               \* the number of the event being handled
    greenlets,         \* invoke_callbacks greenlets spawned and not yet run
    fs,                \* the pickup directories: path -> content
    archive,           \* the names copied into move_processed_to
    log,               \* the bag of what logger.warn / warning were given
    calls,             \* history: the calls made by run(), in order
    invokes,           \* history: the spawns made by invoke_callbacks
    nevents,           \* history: how many events get_events has returned
    handled,           \* history: the numbers of the events handled so far
    stop_req           \* history: where run() was when a stop was requested

vars == <<config, callback_config, infx_ok, exists, keep_running, wd_to_path,
          parser_cache, pc, events, pe, cur, greenlets, fs, archive, log,
          calls, invokes, nevents, handled, stop_req>>

Paths == Dirs \X Names

\* logger.warn(format_exc(e)) for each error of msgs (none, or one).
warn(bag, msgs) ==
    IF msgs = <<>> THEN bag ELSE bag (+) SetToBag({msgs[1]})

\* The stop requests: where run() was when keep_running was first cleared
\* by another greenlet (flag) and when the first KeyboardInterrupt came
\* (interrupt); None while there was none.
NoStop == [flag |-> None, interrupt |-> None]

\* The states of run() in which its while loop has been entered and not left.
Running == {"while", "get_events", "for", "post_handle"}
\* run() is over: it returned, or an error left it for the caller.
Over == {"returned", "raised"}

Init ==
    /\ config \in Configs
    /\ \E order \in Orders(DOMAIN config) :
          callback_config = build_callback_config(config, order, EmptyBunch)
    /\ infx_ok \in BOOLEAN
    /\ exists \in {Dirs} \cup {Dirs \ {d} : d \in DOMAIN callback_config}
    /\ keep_running = TRUE
    /\ wd_to_path = EmptyBunch
    /\ parser_cache = EmptyBunch
    /\ pc = "run"
    /\ events = <<>>
    /\ pe = PickupEvent
    /\ cur = 0
    /\ greenlets = {}
    /\ fs = [p \in Paths |-> "absent"]
    /\ archive = {}
    /\ log = EmptyBag
    /\ calls = <<>>
    /\ invokes = {}
    /\ nevents = 0
    /\ handled = {}
    /\ stop_req = NoStop

(***************************************************************************)
(* run(): start-up                                                         *)
(***************************************************************************)
\* if infx is None: logger.warning(...); return
\* else: self.infx_fd = infx.init()
run_begin ==
    /\ pc = "run"
    /\ IF infx_ok
       THEN /\ pc' = "add_watch"
            /\ log' = log
       ELSE /\ pc' = "returned"
            /\ log' = warn(log, <<"inotify not available">>)
    /\ UNCHANGED <<config, callback_config, infx_ok, exists, keep_running,
                   wd_to_path, parser_cache, events, pe, cur, greenlets, fs,
                   archive, calls, invokes, nevents, handled,
                   stop_req>>

\* The outer handler of run() letting the error through to the caller.
run_except_reraise(exc) ==
    /\ pc' = "raised"
    /\ log' = log

\* What the outer `except Exception` of run() does with an error raised
\* outside the loop's own handlers: logs it, and run() returns.
run_except(exc) ==
    /\ pc' = "returned"
    /\ log' = warn(log, <<exc>>)

Watched == {wd_to_path[wd] : wd \in DOMAIN wd_to_path}

\* The for loop over callback_config without its os.path.exists test: a
\* watch is added for every path.
add_watch_unchecked ==
    /\ pc = "add_watch"
    /\ \E path \in DOMAIN callback_config \ Watched :
          wd_to_path' =
              wd_to_path @@ ((Cardinality(DOMAIN wd_to_path) + 1) :> path)
    /\ UNCHANGED <<config, callback_config, infx_ok, exists, keep_running,
                   parser_cache, pc, events, pe, cur, greenlets, fs, archive,
                   log, calls, invokes, nevents, handled, stop_req>>

\* One pass of `for path in self.callback_config`, in the order the Bunch
\* hands out its keys; infx.add_watch returns the next watch descriptor.
add_watch ==
    /\ pc = "add_watch"
    /\ \E path \in DOMAIN callback_config \ Watched :
          IF path \notin exists
          THEN /\ run_except("Path does not exist")
               /\ UNCHANGED wd_to_path
          ELSE /\ wd_to_path' =
                      wd_to_path @@ ((Cardinality(DOMAIN wd_to_path) + 1) :> path)
               /\ UNCHANGED <<pc, log>>
    /\ UNCHANGED <<config, callback_config, infx_ok, exists, keep_running,
                   parser_cache, events, pe, cur, greenlets, fs, archive,
                   calls, invokes, nevents, handled, stop_req>>

\* The for loop over callback_config is exhausted: the while loop is next.
enter_loop ==
    /\ pc = "add_watch"
    /\ DOMAIN callback_config \ Watched = {}
    /\ pc' = "while"
    /\ UNCHANGED <<config, callback_config, infx_ok, exists, keep_running,
                   wd_to_path, parser_cache, events, pe, cur, greenlets, fs,
                   archive, log, calls, invokes, nevents, handled, stop_req>>

\* A KeyboardInterrupt while the watches are being added: it is no
\* Exception, the outer handler lets it through to the caller of run().
interrupt_setup ==
    /\ pc = "add_watch"
    /\ pc' = "raised"
    /\ stop_req' = [stop_req EXCEPT !.interrupt = pc]
    /\ UNCHANGED <<config, callback_config, infx_ok, exists, keep_running,
                   wd_to_path, parser_cache, events, pe, cur, greenlets, fs,
                   archive, log, calls, invokes, nevents, handled>>

(***************************************************************************)
(* run(): handling one event (the body of `for event in events`)           *)
(***************************************************************************)
\* A record of one call made while event number ev was handled.
Call(op, ev, ok) ==
    [op |-> op, ev |-> ev, ok |-> ok,
     file_name |-> None, full_path |-> NoPath, flag |-> FALSE]

\* f = open(full_path, 'rb'); raw_data = f.read(); has_raw_data = True
read_file(p, fsys) ==
    IF fsys[p.full_path] = "absent"
    THEN [exc |-> "IOError", pe |-> p]
    ELSE [exc |-> None,
          pe |-> [p EXCEPT !.raw_data = fsys[p.full_path],
                           !.has_raw_data = TRUE]]

\* has_data set before the parser is resolved and called, so that it
\* stays set when they raise.
parsed_flag_first(p, r, d, ev) ==
    IF r.exc # None
    THEN [pe |-> [p EXCEPT !.parse_error = r.exc, !.has_data = TRUE],
          cache |-> r.cache, calls |-> <<Call("get_parser", ev, FALSE)>>]
    ELSE IF d.exc # None
    THEN [pe |-> [p EXCEPT !.parse_error = d.exc, !.has_data = TRUE],
          cache |-> r.cache,
          calls |-> <<Call("get_parser", ev, TRUE), Call("parser", ev, FALSE)>>]
    ELSE [pe |-> [p EXCEPT !.data = d.value, !.has_data = TRUE],
          cache |-> r.cache,
          calls |-> <<Call("get_parser", ev, TRUE), Call("parser", ev, TRUE)>>]

\* The error of the parser swallowed: `except Exception: pass`.
parsed_error_dropped(p, r, d, ev) ==
    IF r.exc # None
    THEN [pe |-> p, cache |-> r.cache,
          calls |-> <<Call("get_parser", ev, FALSE)>>]
    ELSE IF d.exc # None
    THEN [pe |-> p, cache |-> r.cache,
          calls |-> <<Call("get_parser", ev, TRUE), Call("parser", ev, FALSE)>>]
    ELSE [pe |-> [p EXCEPT !.data = d.value, !.has_data = TRUE],
          cache |-> r.cache,
          calls |-> <<Call("get_parser", ev, TRUE), Call("parser", ev, TRUE)>>]

\* pe.data = parser(pe.raw_data); pe.has_data = True, and the
\* `except Exception, e: pe.parse_error = e` around it, the parser having
\* been resolved (r is what get_parser returned) and called (d is what the
\* call returned): [pe, cache, calls].
parsed(p, r, d, ev) ==
    IF r.exc # None
    THEN [pe |-> [p EXCEPT !.parse_error = r.exc], cache |-> r.cache,
          calls |-> <<Call("get_parser", ev, FALSE)>>]
    ELSE IF d.exc # None
    THEN [pe |-> [p EXCEPT !.parse_error = d.exc], cache |-> r.cache,
          calls |-> <<Call("get_parser", ev, TRUE), Call("parser", ev, FALSE)>>]
    ELSE [pe |-> [p EXCEPT !.data = d.value, !.has_data = TRUE],
          cache |-> r.cache,
          calls |-> <<Call("get_parser", ev, TRUE), Call("parser", ev, TRUE)>>]

resolved_and_called(p, r, ev) ==
    parsed(p, r, call_parser(r.parser, p.raw_data), ev)

\* The else branch setting has_data next to data.
parse_data_flagged(p, cfg, cache, ev) ==
    IF cfg.parse_on_pickup
    THEN resolved_and_called(p, get_parser(cache, cfg.parse_with), ev)
    ELSE [pe |-> [p EXCEPT !.data = p.raw_data, !.has_data = TRUE],
          cache |-> cache, calls |-> <<>>]

\* The parse_on_pickup branch and its else: [pe, cache, calls].
parse_data(p, cfg, cache, ev) ==
    IF cfg.parse_on_pickup
    THEN resolved_and_called(p, get_parser(cache, cfg.parse_with), ev)
    ELSE [pe |-> [p EXCEPT !.data = p.raw_data], cache |-> cache,
          calls |-> <<>>]

\* What handling one event comes to.  next is "post_handle" when
\* invoke_callbacks was spawned and post_handle is the next statement,
\* "continue" when the loop goes on to the next event (a `continue`, or
\* the `except Exception` of the event, which logs exc).
Handled(p, cache, cs, exc, spawned, next) ==
    [pe |-> p, cache |-> cache, calls |-> cs,
     log |-> IF exc = None THEN <<>> ELSE <<exc>>,
     spawned |-> spawned, next |-> next]

\* The spawn guarded on its own: its error is logged and post_handle is
\* the next statement all the same.
dispatch_then_post_handle(ps, cs, cfg, ev, spawn_ok) ==
    IF spawn_ok
    THEN Handled(ps.pe, ps.cache,
                 Append(cs \o ps.calls,
                        Call("spawn_invoke_callbacks", ev, TRUE)),
                 None,
                 {[ev |-> ev, pe |-> ps.pe, recipients |-> cfg.recipients]},
                 "post_handle")
    ELSE Handled(ps.pe, ps.cache,
                 Append(cs \o ps.calls,
                        Call("spawn_invoke_callbacks", ev, FALSE)),
                 "SpawnError", {}, "post_handle")

\* spawn_greenlet(self.invoke_callbacks, pe, config.recipients), ps being
\* the event as read and parsed and cs the calls made so far.
dispatch(ps, cs, cfg, ev, spawn_ok) ==
    IF spawn_ok
    THEN Handled(ps.pe, ps.cache,
                 Append(cs \o ps.calls,
                        Call("spawn_invoke_callbacks", ev, TRUE)),
                 None,
                 {[ev |-> ev, pe |-> ps.pe, recipients |-> cfg.recipients]},
                 "post_handle")
    ELSE Handled(ps.pe, ps.cache,
                 Append(cs \o ps.calls,
                        Call("spawn_invoke_callbacks", ev, FALSE)),
                 "SpawnError", {}, "continue")

\* An error of open or read swallowed where it is raised: the event goes
\* on to invoke_callbacks without raw data.
after_read_proceed(rd, cfg, cache, ev, spawn_ok) ==
    IF rd.exc # None
    THEN dispatch([pe |-> rd.pe, cache |-> cache, calls |-> <<>>],
                  <<Call("open", ev, FALSE)>>, cfg, ev, spawn_ok)
    ELSE dispatch(parse_data(rd.pe, cfg, cache, ev),
                  <<Call("open", ev, TRUE)>>, cfg, ev, spawn_ok)

\* The read_on_pickup branch once the file was opened and read (rd):
\* an error of open or read leaves the try block of the event.
after_read(rd, cfg, cache, ev, spawn_ok) ==
    IF rd.exc # None
    THEN Handled(rd.pe, cache, <<Call("open", ev, FALSE)>>, rd.exc, {},
                 "continue")
    ELSE dispatch(parse_data(rd.pe, cfg, cache, ev),
                  <<Call("open", ev, TRUE)>>, cfg, ev, spawn_ok)

\* if config.read_on_pickup: ... ; spawn_greenlet(self.invoke_callbacks, ...)
read_and_dispatch(p, cfg, cache, fsys, ev, spawn_ok) ==
    IF cfg.read_on_pickup
    THEN after_read(read_file(p, fsys), cfg, cache, ev, spawn_ok)
    ELSE dispatch([pe |-> p, cache |-> cache, calls |-> <<>>], <<>>, cfg, ev,
                  spawn_ok)

\* The hot-deploy branch without its `continue`: the event falls through
\* to invoke_callbacks and post_handle.
hot_deploy_fallthrough(p, cfg, cache, ev, spawn_ok) ==
    dispatch([pe |-> p, cache |-> cache, calls |-> <<>>],
             <<[Call("spawn_hot_deploy", ev, TRUE) EXCEPT
                   !.file_name = p.file_name, !.full_path = p.full_path,
                   !.flag = cfg.delete_after_pick_up]>>,
             cfg, ev, spawn_ok)

\* spawn_greenlet(hot_deploy, server, file_name, full_path,
\* delete_after_pick_up) and `continue`
hot_deploy_dispatch(p, cfg, cache, ev, spawn_ok) ==
    Handled(p, cache,
            <<[Call("spawn_hot_deploy", ev, spawn_ok) EXCEPT
                  !.file_name = p.file_name, !.full_path = p.full_path,
                  !.flag = cfg.delete_after_pick_up]>>,
            IF spawn_ok THEN None ELSE "SpawnError", {}, "continue")

\* The read_on_pickup test coming before the hot-deploy test: a directory
\* with both flags set is read and dispatched.
pick_up_read_first(event, base_dir, cfg, cache, fsys, spawn_ok) ==
    IF ~should_pick_up(event.name, cfg.patterns)
    THEN Handled([PickupEvent EXCEPT !.base_dir = base_dir], cache, <<>>,
                 None, {}, "continue")
    ELSE IF cfg.is_service_hot_deploy /\ ~cfg.read_on_pickup
    THEN hot_deploy_dispatch(
             [PickupEvent EXCEPT !.base_dir = base_dir,
                                 !.file_name = event.name,
                                 !.stanza = cfg.stanza,
                                 !.full_path = path_join(base_dir, event.name)],
             cfg, cache, event.id, spawn_ok)
    ELSE read_and_dispatch(
             [PickupEvent EXCEPT !.base_dir = base_dir,
                                 !.file_name = event.name,
                                 !.stanza = cfg.stanza,
                                 !.full_path = path_join(base_dir, event.name)],
             cfg, cache, fsys, event.id, spawn_ok)

\* The try block of one event from should_pick_up on, config being
\* self.callback_config[pe.base_dir].
pick_up(event, base_dir, cfg, cache, fsys, spawn_ok) ==
    IF ~should_pick_up(event.name, cfg.patterns)
    THEN Handled([PickupEvent EXCEPT !.base_dir = base_dir], cache, <<>>,
                 None, {}, "continue")
    ELSE IF cfg.is_service_hot_deploy
    THEN hot_deploy_dispatch(
             [PickupEvent EXCEPT !.base_dir = base_dir,
                                 !.file_name = event.name,
                                 !.stanza = cfg.stanza,
                                 !.full_path = path_join(base_dir, event.name)],
             cfg, cache, event.id, spawn_ok)
    ELSE read_and_dispatch(
             [PickupEvent EXCEPT !.base_dir = base_dir,
                                 !.file_name = event.name,
                                 !.stanza = cfg.stanza,
                                 !.full_path = path_join(base_dir, event.name)],
             cfg, cache, fsys, event.id, spawn_ok)

\* The lookup done with wd_to_path.get and a `continue` on None: an
\* unknown watch descriptor is passed over without a word.
handle_skip_unknown(event, cfgs, w2p, cache, fsys, spawn_ok) ==
    IF event.wd \notin DOMAIN w2p
    THEN Handled(PickupEvent, cache, <<>>, None, {}, "continue")
    ELSE pick_up(event, w2p[event.wd], cfgs[w2p[event.wd]], cache, fsys,
                 spawn_ok)

\* The try block of one event, up to and including the spawning of
\* invoke_callbacks, and its `except Exception`: a watch descriptor that
\* wd_to_path does not hold is a KeyError.
handle(event, cfgs, w2p, cache, fsys, spawn_ok) ==
    IF event.wd \notin DOMAIN w2p
    THEN Handled(PickupEvent, cache, <<Call("wd_to_path", event.id, FALSE)>>,
                 "KeyError", {}, "continue")
    ELSE pick_up(event, w2p[event.wd], cfgs[w2p[event.wd]], cache, fsys,
                 spawn_ok)

\* A record of a call made by post_handle on full_path.
FileCall(op, ev, ok, full_path) ==
    [Call(op, ev, ok) EXCEPT !.full_path = full_path]

\* if config.delete_after_pick_up: os.remove(full_path), the copy (if any)
\* being done: os.remove fails when the file is gone.
remove_original(full_path, cfg, fsys, arch, cs, ev) ==
    IF ~cfg.delete_after_pick_up
    THEN [exc |-> None, fs |-> fsys, archive |-> arch, calls |-> cs]
    ELSE IF fsys[full_path] = "absent"
    THEN [exc |-> "OSError", fs |-> fsys, archive |-> arch,
          calls |-> Append(cs, FileCall("remove", ev, FALSE, full_path))]
    ELSE [exc |-> None, fs |-> [fsys EXCEPT ![full_path] = "absent"],
          archive |-> arch,
          calls |-> Append(cs, FileCall("remove", ev, TRUE, full_path))]

\* post_handle with the copy guarded on its own: a failed copy is passed
\* over and the original is removed all the same.
post_handle_delete_anyway(full_path, cfg, fsys, arch, ev, copy_ok) ==
    IF cfg.move_processed_to = None
    THEN remove_original(full_path, cfg, fsys, arch,
                         <<FileCall("post_handle", ev, TRUE, full_path)>>, ev)
    ELSE IF fsys[full_path] = "absent" \/ ~copy_ok
    THEN remove_original(full_path, cfg, fsys, arch,
                         <<FileCall("post_handle", ev, TRUE, full_path),
                           FileCall("copy", ev, FALSE, full_path)>>, ev)
    ELSE remove_original(full_path, cfg, fsys, arch \cup {full_path[2]},
                         <<FileCall("post_handle", ev, TRUE, full_path),
                           FileCall("copy", ev, TRUE, full_path)>>, ev)

\* post_handle(full_path, config): [exc, fs, archive, calls].
\* shutil.copy fails when the file is gone or the target cannot be written
\* (copy_ok false), and its error leaves post_handle.
post_handle(full_path, cfg, fsys, arch, ev, copy_ok) ==
    IF cfg.move_processed_to = None
    THEN remove_original(full_path, cfg, fsys, arch,
                         <<FileCall("post_handle", ev, TRUE, full_path)>>, ev)
    ELSE IF fsys[full_path] = "absent" \/ ~copy_ok
    THEN [exc |-> "IOError", fs |-> fsys, archive |-> arch,
          calls |-> <<FileCall("post_handle", ev, TRUE, full_path),
                      FileCall("copy", ev, FALSE, full_path)>>]
    ELSE remove_original(full_path, cfg, fsys, arch \cup {full_path[2]},
                         <<FileCall("post_handle", ev, TRUE, full_path),
                           FileCall("copy", ev, TRUE, full_path)>>, ev)

(***************************************************************************)
(* invoke_callbacks, run in a greenlet of its own                          *)
(***************************************************************************)
\* The request dictionary built from the PickupEvent; its ts_utc is the
\* time at which it is built, datetime.utcnow().isoformat().
request_of(p) ==
    [base_dir |-> p.base_dir, file_name |-> p.file_name,
     full_path |-> p.full_path, stanza |-> p.stanza,
     ts_utc |-> "utcnow",
     raw_data |-> p.raw_data,
     data |-> IF p.data # _singleton THEN p.data ELSE None,
     has_raw_data |-> p.has_raw_data, has_data |-> p.has_data,
     parse_error |-> p.parse_error]

\* `for recipient in recipients: spawn_greenlet(self.server.invoke, ...)`
\* inside the try that encloses the loop: the spawn for recipient number
\* fail_at raises (0: none does), which ends the loop.  Each spawn made is
\* recorded with the position i of its recipient.
spawn_invokes(recipients, request, ev, fail_at) ==
    {[ev |-> ev, i |-> i, recipient |-> recipients[i], request |-> request,
      ok |-> i # fail_at] :
        i \in {k \in 1..Len(recipients) : fail_at = 0 \/ k <= fail_at}}

\* invoke_callbacks building its request from the PickupEvent run() is
\* handling when the greenlet runs: one PickupEvent shared by all events.
invoke_callbacks_current_pe(pickup_event, recipients, ev, fail_at) ==
    [invokes |-> spawn_invokes(recipients, request_of(pe), ev, fail_at),
     log |-> IF fail_at \in 1..Len(recipients) THEN <<"SpawnError">>
                                                ELSE <<>>]

\* invoke_callbacks(pickup_event, recipients): [invokes, log]
invoke_callbacks(pickup_event, recipients, ev, fail_at) ==
    [invokes |-> spawn_invokes(recipients, request_of(pickup_event), ev,
                               fail_at),
     log |-> IF fail_at \in 1..Len(recipients) THEN <<"SpawnError">>
                                                ELSE <<>>]

(***************************************************************************)
(* run(): the loop                                                         *)
(***************************************************************************)
\* A loop that does not test keep_running: `while True`.
while_true ==
    /\ pc = "while"
    /\ pc' = "get_events"
    /\ UNCHANGED <<config, callback_config, infx_ok, exists, keep_running,
                   wd_to_path, parser_cache, events, pe, cur, greenlets, fs,
                   archive, log, calls, invokes, nevents, handled, stop_req>>

\* while self.keep_running
while_check ==
    /\ pc = "while"
    /\ pc' = IF keep_running THEN "get_events" ELSE "returned"
    /\ UNCHANGED <<config, callback_config, infx_ok, exists, keep_running,
                   wd_to_path, parser_cache, events, pe, cur, greenlets, fs,
                   archive, log, calls, invokes, nevents, handled, stop_req>>

\* The events inotify may report: for a stale watch descriptor; in each
\* watched directory for file "a", written with good content; and in the
\* directory of stanza "s1" also for a file no pattern matches and for
\* file "a" with the other contents (absent: moved out of the directory,
\* or gone by the time it is handled).
EventChoices ==
    {[wd |-> StaleWd, name |-> "a", content |-> "good"]}
    \cup {[wd |-> wd, name |-> "a", content |-> "good"] :
             wd \in DOMAIN wd_to_path}
    \cup {[wd |-> wd, name |-> "c", content |-> "good"] :
             wd \in {w \in DOMAIN wd_to_path : wd_to_path[w] = "d1"}}
    \cup {[wd |-> wd, name |-> "a", content |-> c] :
             wd \in {w \in DOMAIN wd_to_path : wd_to_path[w] = "d1"},
             c \in Contents}

Min(a, b) == IF a < b THEN a ELSE b

RECURSIVE written(_, _, _)
\* The directories once the files of the events of a batch were written.
written(fsys, w2p, batch) ==
    IF batch = <<>> THEN fsys
    ELSE LET e == Head(batch)
         IN  written(IF e.wd \in DOMAIN w2p
                     THEN [fsys EXCEPT ![<<w2p[e.wd], e.name>>] = e.content]
                     ELSE fsys,
                     w2p, Tail(batch))

\* A for loop that tests keep_running before each event and breaks.
next_event_or_break(rest) ==
    IF rest = <<>> \/ ~keep_running THEN "while" ELSE "for"

\* After the last statement of the loop body for one event, or a
\* `continue`: the next event of the batch, or the while test.
next_event(rest) == IF rest = <<>> THEN "while" ELSE "for"

\* The handler of one event letting the error through: run() is left.
event_except_reraise(rest) == "returned"

\* After the `except Exception, e: logger.warn(format_exc(e))` of one
\* event: the for loop goes on.
event_except(rest) == next_event(rest)

\* events = infx.get_events(self.infx_fd, 1.0) returns a batch, which may
\* be empty (the timeout went by).
get_events ==
    /\ pc = "get_events"
    /\ \E n \in 0..Min(MaxBatch, MaxEvents - nevents) :
       \E batch \in [1..n -> EventChoices] :
          /\ events' = [i \in 1..n |->
                           [id |-> nevents + i, wd |-> batch[i].wd,
                            name |-> batch[i].name,
                            content |-> batch[i].content]]
          /\ nevents' = nevents + n
          /\ fs' = written(fs, wd_to_path, batch)
          /\ pc' = next_event(batch)
    /\ UNCHANGED <<config, callback_config, infx_ok, exists, keep_running,
                   wd_to_path, parser_cache, pe, cur, greenlets, archive,
                   log, calls, invokes, handled, stop_req>>

\* get_events raises an error (EBADF, EINTR, ...): no handler of the loop
\* takes it, the outer `except Exception` of run() does.
get_events_error ==
    /\ pc = "get_events"
    /\ run_except("IOError")
    /\ UNCHANGED <<config, callback_config, infx_ok, exists, keep_running,
                   wd_to_path, parser_cache, events, pe, cur, greenlets, fs,
                   archive, calls, invokes, nevents, handled,
                   stop_req>>

\* No handler for KeyboardInterrupt in the loop: it leaves run().
interrupt_propagates ==
    /\ pc \in {"get_events", "for", "post_handle"}
    /\ pc' = "raised"
    /\ stop_req' = IF stop_req.interrupt = None
                    THEN [stop_req EXCEPT !.interrupt = pc] ELSE stop_req
    /\ UNCHANGED <<config, callback_config, infx_ok, exists, keep_running,
                   wd_to_path, parser_cache, events, pe, cur, greenlets, fs,
                   archive, log, calls, invokes, nevents, handled>>

\* except KeyboardInterrupt: self.keep_running = False.  The interrupt
\* comes while get_events waits, or while the events of a batch are being
\* handled, which ends the for loop.
interrupt ==
    /\ pc \in {"get_events", "for", "post_handle"}
    /\ keep_running' = FALSE
    /\ pc' = "while"
    /\ events' = <<>>
    /\ stop_req' = IF stop_req.interrupt = None
                    THEN [stop_req EXCEPT !.interrupt = pc] ELSE stop_req
    /\ UNCHANGED <<config, callback_config, infx_ok, exists, wd_to_path,
                   parser_cache, pe, cur, greenlets, fs, archive, log, calls,
                   invokes, nevents, handled>>

\* Another greenlet clears keep_running while run() is in its loop.
stop ==
    /\ pc \in Running
    /\ keep_running
    /\ keep_running' = FALSE
    /\ stop_req' = IF stop_req.flag = None
                    THEN [stop_req EXCEPT !.flag = pc] ELSE stop_req
    /\ UNCHANGED <<config, callback_config, infx_ok, exists, wd_to_path,
                   parser_cache, pc, events, pe, cur, greenlets, fs, archive,
                   log, calls, invokes, nevents, handled>>

\* One pass of `for event in events`, up to post_handle.
handle_event ==
    /\ pc = "for"
    /\ \E spawn_ok \in BOOLEAN :
       \E h \in {handle(Head(events), callback_config, wd_to_path,
                         parser_cache, fs, spawn_ok)} :
              /\ pe' = h.pe
              /\ cur' = Head(events).id
              /\ parser_cache' = h.cache
              /\ calls' = calls \o h.calls
              /\ log' = warn(log, h.log)
              /\ greenlets' = greenlets \cup h.spawned
              /\ events' = Tail(events)
              /\ pc' = IF h.next = "post_handle" THEN "post_handle"
                       ELSE IF h.log # <<>> THEN event_except(Tail(events))
                       ELSE next_event(Tail(events))
    /\ handled' = handled \cup {Head(events).id}
    /\ UNCHANGED <<config, callback_config, infx_ok, exists, keep_running,
                   wd_to_path, fs, archive, invokes, nevents, stop_req>>

\* self.post_handle(pe.full_path, config), and the `except Exception` of
\* the event around it.
post_handle_event ==
    /\ pc = "post_handle"
    /\ \E copy_ok \in BOOLEAN :
       \E r \in {post_handle(pe.full_path, callback_config[pe.base_dir],
                              fs, archive, cur, copy_ok)} :
              /\ fs' = r.fs
              /\ archive' = r.archive
              /\ calls' = calls \o r.calls
              /\ log' = warn(log, IF r.exc = None THEN <<>> ELSE <<r.exc>>)
              /\ pc' = IF r.exc = None THEN next_event(events)
                                       ELSE event_except(events)
    /\ UNCHANGED <<config, callback_config, infx_ok, exists, keep_running,
                   wd_to_path, parser_cache, events, pe, cur, greenlets,
                   invokes, nevents, handled, stop_req>>

\* A spawned invoke_callbacks greenlet runs.
run_invoke_callbacks ==
    /\ \E g \in greenlets :
       \E fail_at \in 0..Len(g.recipients) :
       \E r \in {invoke_callbacks(g.pe, g.recipients, g.ev, fail_at)} :
              /\ invokes' = invokes \cup r.invokes
              /\ log' = warn(log, r.log)
              /\ greenlets' = greenlets \ {g}
    /\ UNCHANGED <<config, callback_config, infx_ok, exists, keep_running,
                   wd_to_path, parser_cache, pc, events, pe, cur, fs,
                   archive, calls, nevents, handled, stop_req>>

Next ==
    \/ run_begin
    \/ add_watch
    \/ enter_loop
    \/ interrupt_setup
    \/ while_check
    \/ get_events
    \/ get_events_error
    \/ interrupt
    \/ stop
    \/ handle_event
    \/ post_handle_event
    \/ run_invoke_callbacks

Spec == Init /\ [][Next]_vars

(***************************************************************************)
(* get_parser called directly on a constructed manager, run() not started. *)
(***************************************************************************)
\* A manager constructed with one stanza, nothing else having happened.
Constructed ==
    /\ config = [s \in {"s1"} |-> CHOOSE c \in SharedSections1 : TRUE]
    /\ callback_config = build_callback_config(config, <<"s1">>, EmptyBunch)
    /\ infx_ok = TRUE
    /\ exists = Dirs
    /\ keep_running = TRUE
    /\ wd_to_path = EmptyBunch
    /\ parser_cache = EmptyBunch
    /\ pc = "run"
    /\ events = <<>>
    /\ pe = PickupEvent
    /\ cur = 0
    /\ greenlets = {}
    /\ fs = [p \in Paths |-> "absent"]
    /\ archive = {}
    /\ log = EmptyBag
    /\ calls = <<>>
    /\ invokes = {}
    /\ nevents = 0
    /\ handled = {}
    /\ stop_req = NoStop

\* The names get_parser is called with.
GetParserArgs == ParserNames \cup {ParserLoad, ParserPadded}

\* The record of one call of get_parser and of what it returned or raised.
ParserCall(parser_name, r) ==
    [op |-> "get_parser", parser_name |-> parser_name, ok |-> r.exc = None,
     exc |-> r.exc, parser |-> r.parser, resolved |-> r.resolved]

\* self.get_parser(parser_name)
call_get_parser ==
    /\ Len(calls) < MaxCalls
    /\ \E parser_name \in GetParserArgs :
       \E r \in {get_parser(parser_cache, parser_name)} :
              /\ parser_cache' = r.cache
              /\ calls' = Append(calls, ParserCall(parser_name, r))
    /\ UNCHANGED <<config, callback_config, infx_ok, exists, keep_running,
                   wd_to_path, pc, events, pe, cur, greenlets, fs, archive,
                   log, invokes, nevents, handled, stop_req>>

NextParser == call_get_parser

ParserSpec == Constructed /\ [][NextParser]_vars

(***************************************************************************)
(* PickupManager.__init__, one pass of its loop over config at a time.     *)
(***************************************************************************)
\* The configurations a manager is constructed with: those run() is
\* followed with, and stanza "s1" ranging over the flags together with "s2".
InitConfigs ==
    Configs \cup {[s \in Stanzas |-> IF s = "s1" THEN c1 ELSE c2] :
                     c1 \in Sections1, c2 \in Sections2}

\* __init__ up to its for loop.
InitBegun ==
    /\ config \in InitConfigs
    /\ callback_config = EmptyBunch
    /\ infx_ok = TRUE
    /\ exists = Dirs
    /\ keep_running = TRUE
    /\ wd_to_path = EmptyBunch
    /\ parser_cache = EmptyBunch
    /\ pc = "__init__"
    /\ events = <<>>
    /\ pe = PickupEvent
    /\ cur = 0
    /\ greenlets = {}
    /\ fs = [p \in Paths |-> "absent"]
    /\ archive = {}
    /\ log = EmptyBag
    /\ calls = <<>>
    /\ invokes = {}
    /\ nevents = 0
    /\ handled = {}
    /\ stop_req = NoStop

\* The stanzas the loop has gone through, in order.
Merged == {calls[i].stanza : i \in 1..Len(calls)}

\* One pass of `for stanza, section_config in self.config.items()`, the
\* dict handing out its items in any order.
merge_stanza ==
    /\ pc = "__init__"
    /\ \E stanza \in DOMAIN config \ Merged :
          /\ callback_config' =
                 build_callback_config(config, <<stanza>>, callback_config)
          /\ calls' = Append(calls, [op |-> "merge", stanza |-> stanza])
    /\ UNCHANGED <<config, infx_ok, exists, keep_running, wd_to_path,
                   parser_cache, pc, events, pe, cur, greenlets, fs, archive,
                   log, invokes, nevents, handled, stop_req>>

NextInit == merge_stanza

InitSpec == InitBegun /\ [][NextInit]_vars

(***************************************************************************)
(* should_pick_up called directly on a constructed manager.                *)
(***************************************************************************)
\* The file names and the pattern lists should_pick_up is called with.
PickUpNames == {"a", "b", "c", "d"}
PatternLists == UNION {[1..n -> Patterns] : n \in 0..MaxPatterns}

\* The record of one call of should_pick_up and of its result.
PickUpCall(name, patterns, result) ==
    [op |-> "should_pick_up", name |-> name, patterns |-> patterns,
     result |-> result]

\* self.should_pick_up(name, patterns), as the first call on the manager.
call_should_pick_up ==
    /\ calls = <<>>
    /\ \E name \in PickUpNames, patterns \in PatternLists :
          calls' = <<PickUpCall(name, patterns,
                                should_pick_up(name, patterns))>>
    /\ UNCHANGED <<config, callback_config, infx_ok, exists, keep_running,
                   wd_to_path, parser_cache, pc, events, pe, cur, greenlets,
                   fs, archive, log, invokes, nevents, handled, stop_req>>

NextPattern == call_should_pick_up

PatternSpec == Constructed /\ [][NextPattern]_vars

(***************************************************************************)
(* Properties                                                              *)
(***************************************************************************)
CallIndex == 1..Len(calls)

\* The step is handle_event, the first part of the body of the for loop.
IsHandle == pc = "for" /\ handled' # handled
\* The step is post_handle_event, the rest of the body of the for loop.
IsPostHandle ==
    pc = "post_handle" /\ pc' # "post_handle" /\ stop_req' = stop_req
\* The call for event ev of one of the kinds ops was made.
Called(ev, ops) == \E i \in CallIndex : calls[i].ev = ev /\ calls[i].op \in ops
\* A call for event ev of one of the kinds ops raised.
Failed(ev, ops) ==
    \E i \in CallIndex :
        calls[i].ev = ev /\ calls[i].op \in ops /\ ~calls[i].ok

C2_EveryRecipientAttempted ==
    \A ev \in {x.ev : x \in invokes} :
        \A i \in 1..Len(Recipients) :
            Cardinality({x \in invokes : x.ev = ev /\ x.i = i}) = 1

\* C3: when resolving the parser or running it raised for an event, the
\* event keeps has_data = FALSE and a parse_error, invoke_callbacks is
\* spawned with it, whatever reaches the recipients carries both, and once
\* the spawn has returned post_handle is the next statement (it is run
\* unless a KeyboardInterrupt comes first).
C3_ParseErrorStillDispatched ==
    \A ev \in handled :
        Failed(ev, {"get_parser", "parser"}) =>
            /\ Called(ev, {"spawn_invoke_callbacks"})
            /\ \A g \in greenlets :
                  g.ev = ev => ~g.pe.has_data /\ g.pe.parse_error # None
            /\ \A x \in invokes :
                  x.ev = ev => /\ ~x.request.has_data
                               /\ x.request.parse_error # None
            /\ ~Failed(ev, {"spawn_invoke_callbacks"}) =>
                  \/ Called(ev, {"post_handle"})
                  \/ pc = "post_handle" /\ cur = ev /\ ~pe.has_data
                        /\ pe.parse_error # None
                  \/ stop_req.interrupt = "post_handle" /\ cur = ev

\* A recipient was invoked with a parse error, and post_handle was run.
C3_Witness ==
    \E x \in invokes :
        /\ x.ok
        /\ x.request.parse_error # None
        /\ ~x.request.has_data
        /\ Failed(x.ev, {"get_parser", "parser"})
        /\ Called(x.ev, {"post_handle"})

\* C4 (as claimed): when opening or reading the file of an event fails,
\* the event still goes on to the recipients: invoke_callbacks is spawned
\* for it.
C4_ReadErrorStillDispatched ==
    \A ev \in handled :
        Failed(ev, {"open"}) => Called(ev, {"spawn_invoke_callbacks"})

\* C4 (amended): when opening or reading the file of an event fails, the
\* error is logged by the handler of the event and the event is given up:
\* no parser is resolved or run, invoke_callbacks is not spawned, no
\* recipient is invoked and post_handle is not run for it.
C4_ReadErrorDropsEvent ==
    \A ev \in handled :
        Failed(ev, {"open"}) =>
            /\ BagToSet(log) \cap {"IOError"} # {}
            /\ ~Called(ev, {"get_parser", "parser", "spawn_invoke_callbacks",
                            "spawn_hot_deploy", "post_handle", "copy",
                            "remove"})
            /\ \A g \in greenlets : g.ev # ev
            /\ \A x \in invokes : x.ev # ev
            /\ ~(pc = "post_handle" /\ cur = ev)

\* The read of an event failed, and run() is still in its loop.
C4_Witness ==
    /\ pc \in Running
    /\ Failed(cur, {"open"})
    /\ callback_config[pe.base_dir].read_on_pickup
    /\ ~pe.has_raw_data
    /\ pe.raw_data = ""

\* The event a step of handle_event handles qualifies for pickup, in a
\* directory configured for hot deployment.
HotDeployEvent ==
    /\ IsHandle
    /\ Head(events).wd \in DOMAIN wd_to_path
    /\ LET cfg == callback_config[wd_to_path[Head(events).wd]]
       IN  /\ should_pick_up(Head(events).name, cfg.patterns)
           /\ cfg.is_service_hot_deploy

\* C5: for an event that qualifies in a hot-deployment directory, the
\* handling of the event makes exactly one call, the spawning of hot_deploy
\* with the file name, base_dir joined with the name and the configuration's
\* delete_after_pick_up; the file is not read, no parser is resolved or
\* run, and post_handle is never run for the event.
C5_HotDeployOnly ==
    /\ [][ HotDeployEvent =>
             LET e == Head(events)
                 dir == wd_to_path[e.wd]
             IN  /\ \E ok \in BOOLEAN :
                       calls' = Append(calls,
                           [op |-> "spawn_hot_deploy", ev |-> e.id, ok |-> ok,
                            file_name |-> e.name,
                            full_path |-> <<dir, e.name>>,
                            flag |-> callback_config[dir].delete_after_pick_up])
                 /\ pc' # "post_handle"
                 /\ UNCHANGED <<fs, archive, parser_cache, greenlets>> ]_vars
    /\ [](\A ev \in handled :
             Called(ev, {"spawn_hot_deploy"}) =>
                 ~Called(ev, {"open", "get_parser", "parser", "post_handle",
                              "copy", "remove"}))

\* A hot-deploy unit was spawned for file "a" of "d1".
C5_Witness ==
    \E i \in CallIndex :
        /\ calls[i].op = "spawn_hot_deploy"
        /\ calls[i].ok
        /\ calls[i].file_name = "a"
        /\ calls[i].full_path = <<"d1", "a">>
        /\ pc \in Running

\* The configuration post_handle was given for the file of a call.
ConfigOf(c) == callback_config[c.full_path[1]]

\* C6 (as claimed): with move_processed_to set and delete_after_pick_up
\* true, the original file is removed even when the copy failed.
C6_CopyFailureStillDeletes ==
    \A i \in CallIndex :
        ( /\ calls[i].op = "copy"
          /\ ~calls[i].ok
          /\ ConfigOf(calls[i]).delete_after_pick_up )
        => Called(calls[i].ev, {"remove"})

\* C6 (amended): with move_processed_to set and delete_after_pick_up true,
\* a copy that fails leaves post_handle at once: os.remove is not called
\* for the original, and the error is logged by the handler of the event.
C6_CopyFailureSkipsDelete ==
    \A i \in CallIndex :
        ( /\ calls[i].op = "copy"
          /\ ~calls[i].ok
          /\ ConfigOf(calls[i]).delete_after_pick_up )
        => /\ ~Called(calls[i].ev, {"remove"})
           /\ BagToSet(log) \cap {"IOError"} # {}

\* The copy failed for a file that is there, delete_after_pick_up being
\* set, and post_handle is over: the original is still in its directory.
C6_Witness ==
    /\ calls # <<>>
    /\ calls[Len(calls)].op = "copy"
    /\ ~calls[Len(calls)].ok
    /\ ConfigOf(calls[Len(calls)]).delete_after_pick_up
    /\ fs[calls[Len(calls)].full_path] # "absent"
    /\ pc # "post_handle"

\* A stop was requested while get_events was waiting.
StopDuringPoll ==
    stop_req.flag = "get_events" \/ stop_req.interrupt = "get_events"

\* C7: while get_events waits and when it returns no event, run() makes no
\* call of its own (no hot-deploy unit, no invoke_callbacks, no
\* post_handle), spawns nothing and touches no file, and after the empty
\* poll it is still in its loop with keep_running as it was; once a stop
\* was requested during a poll (keep_running cleared, or an interrupt),
\* keep_running stays false, no other poll is started and the while test
\* leaves the loop.
C7_EmptyPollAndStop ==
    /\ [][ (pc = "get_events" /\ nevents' = nevents) =>
              /\ UNCHANGED <<calls, fs, archive, handled, parser_cache>>
              /\ greenlets' \subseteq greenlets
              /\ (pc' = "while" /\ stop_req' = stop_req) =>
                     /\ keep_running' = keep_running
                     /\ pc' \in Running ]_vars
    /\ [][ StopDuringPoll =>
              /\ ~keep_running /\ ~keep_running'
              /\ pc' = "get_events" => pc = "get_events"
              /\ pc = "while" => pc' \in {"while", "returned"} ]_vars

\* keep_running was cleared during a poll that then returned no event, and
\* run() returned from the while test, nothing having been dispatched.
C7_Witness ==
    /\ pc = "returned"
    /\ stop_req = [flag |-> "get_events", interrupt |-> None]
    /\ nevents = 0
    /\ log = EmptyBag
    /\ calls = <<>>

\* Where the events of a batch are being handled.
InBatch == {"for", "post_handle"}

\* C8 (as claimed): after a stop request made while the events of a batch
\* were being handled (keep_running cleared, or an interrupt), run()
\* returns only once every event get_events has returned was handled.
C8_StopAfterWholeBatch ==
    ( /\ pc = "returned"
      /\ stop_req.flag \in InBatch \/ stop_req.interrupt \in InBatch )
    => handled = 1..nevents

\* C8 (amended): a stop request made by clearing keep_running while the
\* events of a batch are being handled takes effect, when no interrupt
\* comes, only after the whole batch was handled; a KeyboardInterrupt
\* during the batch ends the for loop at once: the events of the batch not
\* yet handled are dropped, keep_running is cleared and the while test is
\* next.
C8_FlagStopAfterWholeBatch ==
    /\ []( ( /\ pc = "returned"
             /\ stop_req.flag \in InBatch
             /\ stop_req.interrupt = None )
           => handled = 1..nevents /\ events = <<>> )
    /\ [][ ( /\ pc \in InBatch
             /\ stop_req.interrupt = None
             /\ stop_req'.interrupt # None )
           => /\ events' = <<>>
              /\ handled' = handled
              /\ ~keep_running'
              /\ pc' = "while" ]_vars

\* keep_running was cleared before the first event of a batch of two was
\* handled, and run() returned with both handled.
C8_Witness ==
    /\ pc = "returned"
    /\ stop_req = [flag |-> "for", interrupt |-> None]
    /\ nevents = 2
    /\ handled = {1, 2}
    /\ cur = 2

\* A configured directory is missing at start-up.
MissingDir == DOMAIN callback_config \ exists # {}

\* C9: while run() is in its loop, every configured directory exists and
\* wd_to_path maps exactly one watch descriptor to each of them; when a
\* configured directory is missing, the loop is never entered: no event is
\* polled, nothing is called or spawned.
C9_WatchesBeforeLoop ==
    /\ pc \in Running =>
          /\ ~MissingDir
          /\ \A path \in DOMAIN callback_config :
                Cardinality({wd \in DOMAIN wd_to_path :
                                wd_to_path[wd] = path}) = 1
          /\ Watched = DOMAIN callback_config
    /\ MissingDir =>
          /\ pc \notin Running
          /\ nevents = 0
          /\ calls = <<>>
          /\ greenlets = {}
          /\ invokes = {}

\* The loop was entered with two directories configured.
C9_Witness ==
    /\ pc = "while"
    /\ DOMAIN callback_config = {"d1", "d2"}
    /\ Cardinality(DOMAIN wd_to_path) = 2

\* C10 (as claimed): with a configured directory missing at start-up, run()
\* ends by the error leaving it for its caller.
C10_MissingDirPropagates ==
    (infx_ok /\ MissingDir /\ pc \in Over) => pc = "raised"

\* C10 (amended): a configured directory missing at start-up aborts the
\* setting up of the watches and the loop is never entered, but the error
\* is caught by the outer handler of run(), which logs it; run() then
\* returns normally (unless a KeyboardInterrupt came first).
C10_MissingDirLoggedAndReturns ==
    /\ (infx_ok /\ MissingDir /\ pc \in Over /\ stop_req.interrupt = None)
          => /\ pc = "returned"
             /\ BagToSet(log) = {"Path does not exist"}
    /\ (infx_ok /\ MissingDir) => pc \notin Running

\* run() returned after the missing directory was logged, one watch added.
C10_Witness ==
    /\ pc = "returned"
    /\ MissingDir
    /\ "Path does not exist" \in BagToSet(log)
    /\ Cardinality(DOMAIN wd_to_path) = 1

\* The parser name is of a type other than "py": get_parser hands it to
\* get_service_parser.
IsRemote(parser_name) ==
    LET segs == split(strip(parser_name), ":")
    IN  Len(segs) = 2 /\ segs[1] # <<"py">>

\* C11: once a call of get_parser with a name has returned a callable,
\* every later call with that name returns the same callable without
\* resolving again, whatever other names were resolved in between, and
\* _parser_cache holds that callable under that name ever after.
C11_ParserCached ==
    /\ \A i, j \in CallIndex :
          (i < j /\ calls[i].parser_name = calls[j].parser_name /\ calls[i].ok)
          => /\ calls[j].ok
             /\ calls[j].parser = calls[i].parser
             /\ ~calls[j].resolved
    /\ \A i \in CallIndex :
          calls[i].ok =>
             /\ calls[i].parser_name \in DOMAIN parser_cache
             /\ parser_cache[calls[i].parser_name] = calls[i].parser

\* py:json.loads resolved, then py:json.load, then py:json.loads again,
\* served from the cache.
C11_Witness ==
    /\ Len(calls) = 3
    /\ calls[1].parser_name = ParserJson /\ calls[1].ok /\ calls[1].resolved
    /\ calls[2].parser_name = ParserLoad /\ calls[2].ok
    /\ calls[3].parser_name = ParserJson /\ calls[3].ok /\ ~calls[3].resolved
    /\ DOMAIN parser_cache = {ParserJson, ParserLoad}

\* The event a step of handle_event handles qualifies, its file is there
\* to be read, and its directory parses with a parser of a type other than
\* "py".
RemoteParseEvent ==
    /\ IsHandle
    /\ Head(events).wd \in DOMAIN wd_to_path
    /\ LET dir == wd_to_path[Head(events).wd]
           cfg == callback_config[dir]
       IN  /\ should_pick_up(Head(events).name, cfg.patterns)
           /\ ~cfg.is_service_hot_deploy
           /\ cfg.read_on_pickup /\ cfg.parse_on_pickup
           /\ IsRemote(cfg.parse_with)
           /\ fs[<<dir, Head(events).name>>] # "absent"

\* C12: each time an event is picked up in a directory whose parser name
\* is of the service type, the first time and every later time, get_parser
\* fails with NotImplementedError and caches nothing; the error is kept as
\* the parse_error of the occurrence, has_data stays false, and run() stays
\* in its loop with keep_running as it was.
C12_ServiceParserAlwaysFails ==
    [][ RemoteParseEvent =>
          /\ \E i \in 1..Len(calls') :
                /\ i > Len(calls)
                /\ calls'[i].op = "get_parser"
                /\ calls'[i].ev = Head(events).id
                /\ ~calls'[i].ok
          /\ \A i \in 1..Len(calls') : calls'[i].op # "parser"
          /\ pe'.parse_error = "NotImplementedError"
          /\ ~pe'.has_data
          /\ pe'.data = _singleton
          /\ parser_cache' = parser_cache
          /\ pc' \in Running
          /\ keep_running' = keep_running ]_vars

\* The second of two events picked up with a service parser: both were
\* dispatched with the error as their parse_error.
C12_Witness ==
    /\ pc \in Running
    /\ cur = 2
    /\ pe.parse_error = "NotImplementedError"
    /\ Failed(1, {"get_parser"}) /\ Failed(2, {"get_parser"})
    /\ Called(1, {"spawn_invoke_callbacks"})
    /\ Called(2, {"spawn_invoke_callbacks"})

\* C13: should_pick_up(name, patterns) is true exactly when some pattern of
\* the list matches the name, and false for the empty list.
C13_PickUpIffSomePatternMatches ==
    \A i \in CallIndex :
        /\ calls[i].result <=>
              \E k \in 1..Len(calls[i].patterns) :
                  match(calls[i].patterns[k], calls[i].name)
        /\ calls[i].patterns = <<>> => ~calls[i].result

\* A name that only the last of three patterns matches was accepted.
C13_Witness ==
    /\ calls # <<>>
    /\ calls[1].name = "a"
    /\ calls[1].patterns = <<"Pb", "Pb", "Pa">>
    /\ calls[1].result

\* For a directory configured with no pattern, run() picks up no event:
\* it makes no call for any event but the failed watch lookup of a stale
\* descriptor.
C13_EmptyPatternsNeverPickedUp ==
    (\A d \in DOMAIN callback_config : callback_config[d].patterns = <<>>)
    => /\ \A i \in CallIndex : calls[i].op = "wd_to_path"
       /\ greenlets = {} /\ invokes = {}
       /\ pe.file_name = None

\* The directory of a request reads the file and does not parse it.
PassThrough(request) ==
    /\ callback_config[request.base_dir].read_on_pickup
    /\ ~callback_config[request.base_dir].parse_on_pickup

\* C14 (as claimed): a request made for a directory with read_on_pickup
\* true and parse_on_pickup false has the raw bytes as its data and has_data
\* true.
C14_PassThroughHasData ==
    \A x \in invokes :
        PassThrough(x.request) =>
            /\ x.request.data = x.request.raw_data
            /\ x.request.has_data

\* The event a step of handle_event handles qualifies, its file is there
\* to be read, and its directory reads without parsing.
PassThroughEvent ==
    /\ IsHandle
    /\ Head(events).wd \in DOMAIN wd_to_path
    /\ LET dir == wd_to_path[Head(events).wd]
           cfg == callback_config[dir]
       IN  /\ should_pick_up(Head(events).name, cfg.patterns)
           /\ ~cfg.is_service_hot_deploy
           /\ cfg.read_on_pickup /\ ~cfg.parse_on_pickup
           /\ fs[<<dir, Head(events).name>>] # "absent"

\* C14 (amended): for a qualifying event with read_on_pickup true and
\* parse_on_pickup false, the occurrence has the bytes read both as its
\* raw_data and as its data, has_raw_data true and no parse_error, but
\* has_data stays false; every recipient is sent these values.
C14_PassThroughDataWithoutFlag ==
    /\ [][ PassThroughEvent =>
              LET e == Head(events)
              IN  /\ pe'.raw_data = fs[<<wd_to_path[e.wd], e.name>>]
                  /\ pe'.data = pe'.raw_data
                  /\ pe'.has_raw_data
                  /\ ~pe'.has_data
                  /\ pe'.parse_error = None
                  /\ \A g \in greenlets' \ greenlets : g.pe = pe' ]_vars
    /\ [](\A x \in invokes :
             PassThrough(x.request) =>
                 /\ x.request.data = x.request.raw_data
                 /\ x.request.data \in Contents \ {"absent"}
                 /\ x.request.has_raw_data
                 /\ ~x.request.has_data
                 /\ x.request.parse_error = None)

\* A recipient was sent the bytes of a file read without parsing.
C14_Witness ==
    \E x \in invokes :
        /\ PassThrough(x.request)
        /\ x.ok
        /\ x.request.data = "bad"
        /\ ~x.request.has_data

\* The positions in calls of the stanzas merged for directory dir.
MergedFor(dir) ==
    {i \in CallIndex : config[calls[i].stanza].pickup_from = dir}

\* The first and the last stanza merged for directory dir.
FirstFor(dir) ==
    calls[CHOOSE i \in MergedFor(dir) : \A j \in MergedFor(dir) : i <= j].stanza
LastFor(dir) ==
    calls[CHOOSE i \in MergedFor(dir) : \A j \in MergedFor(dir) : j <= i].stanza

\* callback_config has one config for each directory of the stanzas gone
\* through, and for no other.
OnePerDirectory ==
    DOMAIN callback_config = {config[s].pickup_from : s \in Merged}

\* C15 (as claimed): callback_config holds one config per directory of the
\* stanzas, and what the first stanza of a directory set is still there
\* after the later stanzas of that directory were merged.
C15_LaterStanzaOnlyAdds ==
    /\ OnePerDirectory
    /\ \A dir \in DOMAIN callback_config :
          \A k \in DOMAIN config[FirstFor(dir)] :
              callback_config[dir][k] = config[FirstFor(dir)][k]

\* C15 (amended): callback_config holds one config per directory of the
\* stanzas; stanzas sharing a directory are merged into it by update, so
\* every key a later stanza sets replaces what earlier stanzas set for it:
\* the config has the values of the last stanza merged for the directory
\* and that stanza's name as its stanza, and no key that no stanza of the
\* directory set.
C15_LaterStanzaReplaces ==
    /\ OnePerDirectory
    /\ \A dir \in DOMAIN callback_config :
          /\ callback_config[dir].stanza = LastFor(dir)
          /\ \A k \in DOMAIN config[LastFor(dir)] :
                callback_config[dir][k] = config[LastFor(dir)][k]
          /\ \A k \in DOMAIN callback_config[dir] \ {"stanza"} :
                \E i \in MergedFor(dir) : k \in DOMAIN config[calls[i].stanza]

\* Two stanzas that share "d1" and differ in read_on_pickup were merged,
\* "s1" first.
C15_Witness ==
    /\ Len(calls) = 2
    /\ calls[1].stanza = "s1"
    /\ config["s1"].pickup_from = config["s2"].pickup_from
    /\ config["s1"].read_on_pickup /\ ~config["s2"].read_on_pickup
    /\ DOMAIN callback_config = {"d1"}
    /\ ~callback_config["d1"].read_on_pickup

\* The step leaves the loop of run().
LeavesLoop == pc \in Running /\ pc' \notin Running

\* C16 (as claimed): the loop of run() is left only after a stop request:
\* keep_running cleared by another greenlet, or an interrupt.
C16_OnlyStopEndsRun ==
    [][ LeavesLoop => stop_req # NoStop ]_vars

\* C16 (amended): the loop of run() is left in two ways only, and run()
\* returns normally in both: by the while test finding keep_running false
\* after a stop request, or by an error raised by get_events itself, which
\* the outer handler of run() logs; no error of the handling of an event
\* ends the run.
C16_StopOrPollErrorEndsRun ==
    [][ LeavesLoop =>
          /\ pc' = "returned"
          /\ \/ /\ pc = "while"
                /\ ~keep_running
                /\ stop_req # NoStop
                /\ log' = log
             \/ /\ pc = "get_events"
                /\ BagCardinality(log') = BagCardinality(log) + 1
                /\ nevents' = nevents /\ calls' = calls ]_vars

\* run() returned from its loop after two events, no stop having been
\* requested: get_events had raised.
C16_Witness ==
    /\ pc = "returned"
    /\ stop_req = NoStop
    /\ keep_running
    /\ nevents = 2
    /\ handled = {1, 2}
    /\ "IOError" \in BagToSet(log)

SameFields(request, p) ==
    /\ \A f \in {"base_dir", "file_name", "full_path", "stanza", "raw_data",
                  "has_raw_data", "has_data", "parse_error"} :
          request[f] = p[f]
    /\ request.data = IF p.data = _singleton THEN None ELSE p.data

UnknownWdEvent == IsHandle /\ Head(events).wd \notin DOMAIN wd_to_path

\* C19 (as claimed): an event with an unknown watch descriptor is passed
\* over: nothing is dispatched, read or cleaned up, nothing is logged, and
\* the loop goes on with the next event.
C19_UnknownWdSilent ==
    [][ UnknownWdEvent =>
          /\ UNCHANGED <<log, greenlets, fs, archive, parser_cache>>
          /\ events' = Tail(events)
          /\ pc' = IF events' = <<>> THEN "while" ELSE "for" ]_vars

\* C19 (amended): for an event with an unknown watch descriptor the lookup
\* in wd_to_path raises KeyError, which the handler of the event logs as a
\* warning; nothing is dispatched, read or cleaned up for the event, and
\* the loop goes on with the next event.
C19_UnknownWdLogged ==
    [][ UnknownWdEvent =>
          /\ log' = log (+) SetToBag({"KeyError"})
          /\ calls' = Append(calls, Call("wd_to_path", Head(events).id, FALSE))
          /\ UNCHANGED <<greenlets, fs, archive, parser_cache, keep_running>>
          /\ events' = Tail(events)
          /\ pc' = IF events' = <<>> THEN "while" ELSE "for" ]_vars

\* The first of two events had an unknown watch descriptor; the error was
\* logged and the second event is next.
C19_Witness ==
    /\ pc = "for"
    /\ calls = <<Call("wd_to_path", 1, FALSE)>>
    /\ BagToSet(log) = {"KeyError"}
    /\ Len(events) = 1

\* C20: an occurrence handed to invoke_callbacks, and every request sent
\* for it, has a parse_error exactly when the parser was resolved or run
\* for the event and that failed, which happens only after the file was
\* read in a directory with read_on_pickup and parse_on_pickup; and it
\* never has both a parse_error and has_data.
C20_ParseErrorIffParseFailed ==
    \A o \in {[ev |-> g.ev, p |-> request_of(g.pe)] : g \in greenlets}
          \cup {[ev |-> x.ev, p |-> x.request] : x \in invokes} :
        /\ o.p.parse_error # None <=> Failed(o.ev, {"get_parser", "parser"})
        /\ o.p.parse_error # None =>
              /\ callback_config[o.p.base_dir].read_on_pickup
              /\ callback_config[o.p.base_dir].parse_on_pickup
              /\ o.p.has_raw_data
              /\ \E i \in CallIndex :
                    calls[i].ev = o.ev /\ calls[i].op = "open" /\ calls[i].ok
        /\ ~(o.p.parse_error # None /\ o.p.has_data)

\* A request with a parse_error and one with parsed data were both sent.
C20_Witness ==
    \E x, y \in invokes :
        /\ x.request.parse_error = "ValueError" /\ ~x.request.has_data
        /\ y.request.parse_error = None /\ y.request.has_data

\* C21: a call of get_parser that fails leaves _parser_cache as it was, so
\* the cache holds exactly the names a call has returned a callable for,
\* and every later call with a name that failed goes through the same
\* steps again and fails with the same error, never served from the cache.
C21_FailureNotCached ==
    /\ [][ (Len(calls') > Len(calls) /\ ~calls'[Len(calls')].ok)
             => parser_cache' = parser_cache ]_vars
    /\ [](DOMAIN parser_cache =
             {calls[i].parser_name : i \in {k \in CallIndex : calls[k].ok}})
    /\ [](\A n \in DOMAIN parser_cache : parser_cache[n] # NoParser)
    /\ [](\A i, j \in CallIndex :
             ( /\ i < j
               /\ calls[i].parser_name = calls[j].parser_name
               /\ ~calls[i].ok )
             => /\ ~calls[j].ok
                /\ calls[j].exc = calls[i].exc
                /\ calls[j].resolved = calls[i].resolved
                /\ calls[j].parser = NoParser)

\* A name with no such attribute failed, a service name and a name
\* without a colon failed, and the first name was resolved again and
\* failed again; the cache is empty.
C21_Witness ==
    /\ Len(calls) = 4
    /\ calls[1].parser_name = ParserNoAttr
    /\ calls[1].exc = "AttributeError" /\ calls[1].resolved
    /\ calls[2].parser_name = ParserService
    /\ calls[2].exc = "NotImplementedError"
    /\ calls[3].parser_name = ParserNoColon
    /\ calls[3].exc = "ValueError"
    /\ calls[4].parser_name = ParserNoAttr
    /\ calls[4].exc = "AttributeError" /\ calls[4].resolved
    /\ parser_cache = EmptyBunch

\* C22: for a directory with is_service_hot_deploy true no PickupEvent is
\* handed to invoke_callbacks and no recipient is sent a request, whatever
\* its read and parse flags and its recipients; an event a hot-deploy unit
\* was spawned for has no invoke_callbacks spawned for it.
C22_HotDeployNeverReachesRecipients ==
    /\ \A d \in DOMAIN callback_config :
          callback_config[d].is_service_hot_deploy =>
              /\ \A g \in greenlets : g.pe.base_dir # d
              /\ \A x \in invokes : x.request.base_dir # d
    /\ \A ev \in handled :
          Called(ev, {"spawn_hot_deploy"}) =>
              /\ ~Called(ev, {"spawn_invoke_callbacks"})
              /\ \A g \in greenlets : g.ev # ev
              /\ \A x \in invokes : x.ev # ev

\* Two events were handed to hot_deploy in a directory that also has the
\* read and parse flags set and two recipients; nothing was sent to them.
C22_Witness ==
    /\ "d1" \in DOMAIN callback_config
    /\ callback_config["d1"].is_service_hot_deploy
    /\ callback_config["d1"].read_on_pickup
    /\ callback_config["d1"].parse_on_pickup
    /\ Len(callback_config["d1"].recipients) = 2
    /\ Len(calls) = 2
    /\ \A i \in CallIndex : calls[i].op = "spawn_hot_deploy" /\ calls[i].ok
    /\ greenlets = {} /\ invokes = {}
    /\ pc = "returned"

====
